---- MODULE Spec2Model ----
(***************************************************************************)
(* Task-manager backend (task-manager-backend.py): the task table, the     *)
(* activity log, the notification settings and the insight store, the     *)
(* request handlers that mutate them, the insight generation run with its  *)
(* analyzers and recommender, and the notification planner.                *)
(*                                                                         *)
(* Time is counted in whole hours since an arbitrary midnight; a naive ISO *)
(* timestamp string is modelled by its hour count.                         *)
(***************************************************************************)
EXTENDS Integers, Sequences, FiniteSets, TLC

\* ------------------------------------------------------------------ bounds
\* how often the wall clock advances in a behaviour
MaxTicks == 1
\* hours the wall clock advances in one step
TickStep == 12
\* tasks created by create_task in a behaviour (on top of the stored ones)
MaxNewTasks == 1
\* request handlers served in a behaviour
MaxRequests == 2
\* firings of the periodic job in a behaviour
MaxJobs == 1
\* the longest list of pending tasks handed to the recommender directly
MaxPending == 6
\* the longest list of completed tasks handed to the productive-time analyzer
\* directly
MaxSample == 5

\* ------------------------------------------------------- program constants
HoursPerDay == 24
\* len(completed_tasks) > 5
MinCompleted == 5
\* len(pending_tasks) > 1
MinPending == 1
\* data.get('priority', 3) and task['priority'] or 3
DefaultPriority == 3
\* sorted_hours[:3]
TopHours == 3
\* task_scores[:5]
TopTasks == 5

\* Python None in the INTEGER column priority
NoPriority == -1000
\* Python None in the TEXT column category
NoCategory == "<None>"

\* --------------------------------------------------------------- date values
\* A stored date column holds NULL, a naive ISO timestamp, an ISO timestamp
\* with a UTC offset (fromisoformat accepts it, arithmetic with the naive
\* now() raises TypeError), or text fromisoformat rejects (ValueError).
NullDate == [k |-> "null", t |-> 0]
BadDate == [k |-> "bad", t |-> 0]
Ts(t) == [k |-> "ts", t |-> t]
AwareTs(t) == [k |-> "aware", t |-> t]

\* Python truthiness of a date column: None and '' are false
DateTruthy(d) == d.k # "null"
\* datetime.datetime.fromisoformat(d) returns (does not raise ValueError)
Parses(d) == d.k \in {"ts", "aware"}
\* arithmetic or comparison of the parsed value with a naive datetime returns
\* (does not raise TypeError)
NaiveOk(d) == d.k = "ts"

\* timedelta.days: the floor of the difference in whole days
Days(delta) == delta \div HoursPerDay
\* datetime.hour
HourOf(t) == t % HoursPerDay
\* strftime('%Y-%m-%d'): the calendar day
DayOf(t) == t \div HoursPerDay

\* -------------------------------------------------------------- sequences
RECURSIVE SelectIdx(_, _, _)
\* the indices i of 1..n, ascending, with keep[i]
SelectIdx(n, keep, i) ==
    IF i > n THEN <<>>
    ELSE (IF keep[i] THEN <<i>> ELSE <<>>) \o SelectIdx(n, keep, i + 1)

\* [x for x in s if Test(x)]
Filter(s, Test(_)) ==
    LET keep == [i \in 1..Len(s) |-> Test(s[i])]
        idx == SelectIdx(Len(s), keep, 1)
    IN [j \in 1..Len(idx) |-> s[idx[j]]]

\* s[:n]
Prefix(s, n) == SubSeq(s, 1, IF Len(s) < n THEN Len(s) ELSE n)

RECURSIVE InsertDesc(_, _, _)
\* index i placed in the index list p after every index whose key is >= its own
InsertDesc(p, i, keys) ==
    IF p = <<>> THEN <<i>>
    ELSE IF keys[Head(p)] >= keys[i]
         THEN <<Head(p)>> \o InsertDesc(Tail(p), i, keys)
         ELSE <<i>> \o p

RECURSIVE OrderDesc(_, _)
\* list.sort(key=..., reverse=True) as a permutation of 1..n: descending by key,
\* equal keys in their original order (Python's sort is stable under reverse)
OrderDesc(n, keys) ==
    IF n = 0 THEN <<>> ELSE InsertDesc(OrderDesc(n - 1, keys), n, keys)

RECURSIVE InsertAsc(_, _, _)
InsertAsc(p, i, keys) ==
    IF p = <<>> THEN <<i>>
    ELSE IF keys[Head(p)] <= keys[i]
         THEN <<Head(p)>> \o InsertAsc(Tail(p), i, keys)
         ELSE <<i>> \o p

RECURSIVE OrderAsc(_, _)
\* ORDER BY key ASC as a permutation of 1..n, rows of equal key in rowid order
OrderAsc(n, keys) ==
    IF n = 0 THEN <<>> ELSE InsertAsc(OrderAsc(n - 1, keys), n, keys)

Permute(s, p) == [j \in 1..Len(p) |-> s[p[j]]]

\* SQLite's ordering of a date column: NULL first, then text by bytes (ISO
\* timestamps in time order, the longer offset form after the naive one, text
\* that is no timestamp last)
DateKey(d) ==
    CASE d.k = "null" -> -1000000
      [] d.k = "ts" -> 2 * d.t
      [] d.k = "aware" -> 2 * d.t + 1
      [] OTHER -> 1000000

\* ------------------------------------------------------------ absent result
\* Python None returned by an analyzer, the recommender or the planner
None == [none |-> TRUE]

\* round(x, 1) of x = 100 * num / den, in tenths (ties to even, as Python rounds
\* a float that holds the tie exactly)
RoundTenths(num, den) ==
    LET q == (1000 * num) \div den
        r == (1000 * num) % den
    IN IF 2 * r > den \/ (2 * r = den /\ q % 2 = 1) THEN q + 1 ELSE q

\* (count / total * 100) if total > 0 else 0, rounded to one decimal
Percentage(count, total) == IF total > 0 THEN RoundTenths(count, total) ELSE 0

\* --------------------------------------------------- analyze_productive_time
\* the hours of the completion timestamps that parse; the others are skipped
CompletionHours(completed_tasks) ==
    LET ok(task) == DateTruthy(task.completed_at) /\ Parses(task.completed_at)
        kept == Filter(completed_tasks, ok)
    IN [i \in 1..Len(kept) |-> HourOf(kept[i].completed_at.t)]

\* completion_hours.count(hour) for hour in range(24)
HourCounts(completion_hours) ==
    [hour \in 0..(HoursPerDay - 1) |->
        Cardinality({i \in 1..Len(completion_hours) : completion_hours[i] = hour})]

\* the top three buckets, those without a completion included
PeakHoursUnfiltered(hour_counts) ==
    LET keys == [i \in 1..HoursPerDay |-> hour_counts[i - 1]]
        top_hours == Prefix(OrderDesc(HoursPerDay, keys), TopHours)
    IN [j \in 1..Len(top_hours) |-> top_hours[j] - 1]

\* sorted(hour_counts.items(), key=count, reverse=True)[:3], then the hours
\* among them with count > 0
PeakHours(hour_counts) ==
    LET keys == [i \in 1..HoursPerDay |-> hour_counts[i - 1]]
        sorted_hours == OrderDesc(HoursPerDay, keys)
        top_hours == Prefix(sorted_hours, TopHours)
        hit(i) == hour_counts[i - 1] > 0
        kept == Filter(top_hours, hit)
    IN [j \in 1..Len(kept) |-> kept[j] - 1]

\* f"{formatted_hour} {ampm}": 12-hour clock, 0 -> 12 AM, 12 -> 12 PM
FormatHour(hour) ==
    LET ampm == IF hour < 12 THEN "AM" ELSE "PM"
        h == IF hour < 12 THEN hour ELSE hour - 12
    IN [hour |-> IF h = 0 THEN 12 ELSE h, ampm |-> ampm]

analyze_productive_time(completed_tasks) ==
    IF completed_tasks = <<>> THEN None
    ELSE LET completion_hours == CompletionHours(completed_tasks)
             hour_counts == HourCounts(completion_hours)
             peak == PeakHours(hour_counts)
         IN IF completion_hours = <<>> THEN None
            ELSE [productive_hours |-> [j \in 1..Len(peak) |-> FormatHour(peak[j])],
                  hour_data |-> hour_counts]

\* --------------------------------------------------- analyze_completion_rate
\* both dates present and parsed (no ValueError in the try block)
BothParse(task) ==
    /\ DateTruthy(task.due_date) /\ DateTruthy(task.completed_at)
    /\ Parses(task.due_date) /\ Parses(task.completed_at)

\* completed_at <= due_date evaluates (no TypeError: both naive or both aware)
Comparable(task) == BothParse(task) /\ task.due_date.k = task.completed_at.k

OnTime(task) == Comparable(task) /\ task.completed_at.t <= task.due_date.t

Late(task) == Comparable(task) /\ task.completed_at.t > task.due_date.t

analyze_completion_rate(completed_tasks, pending_tasks) ==
    LET total_tasks == Len(completed_tasks) + Len(pending_tasks)
        on_time_count == Len(Filter(completed_tasks, OnTime))
        late_count == Len(Filter(completed_tasks, Late))
    IN IF total_tasks = 0 THEN None
       ELSE [completion_rate |-> RoundTenths(Len(completed_tasks), total_tasks),
             on_time_percentage |-> Percentage(on_time_count, on_time_count + late_count),
             completed_count |-> Len(completed_tasks),
             pending_count |-> Len(pending_tasks)]

\* ---------------------------------------------- analyze_category_performance
\* task['category'] or 'Uncategorized'
CategoryOf(task) ==
    IF task.category = NoCategory \/ task.category = "" THEN "Uncategorized"
    ELSE task.category

RECURSIVE FirstSeen(_, _, _)
\* the keys of the categories dict, in insertion order
FirstSeen(s, i, seen) ==
    IF i > Len(s) THEN <<>>
    ELSE IF CategoryOf(s[i]) \in seen THEN FirstSeen(s, i + 1, seen)
         ELSE <<CategoryOf(s[i])>> \o FirstSeen(s, i + 1, seen \cup {CategoryOf(s[i])})

\* one entry of category_performance; total_with_due_date counts a task as soon
\* as both dates parse, on_time only when the comparison also evaluates
CategoryEntry(completed_tasks, category) ==
    LET mine == {i \in 1..Len(completed_tasks) : CategoryOf(completed_tasks[i]) = category}
        with_due == {i \in mine : BothParse(completed_tasks[i])}
        on_time == {i \in mine : OnTime(completed_tasks[i])}
    IN [category |-> category,
        task_count |-> Cardinality(mine),
        on_time_percentage |-> Percentage(Cardinality(on_time), Cardinality(with_due))]

\* max(list, key=...) and min(list, key=...): the first element with the
\* extreme key
FirstMax(s, Key(_)) ==
    s[CHOOSE i \in 1..Len(s) :
        /\ \A j \in 1..Len(s) : Key(s[j]) <= Key(s[i])
        /\ \A j \in 1..(i - 1) : Key(s[j]) < Key(s[i])]

FirstMin(s, Key(_)) ==
    s[CHOOSE i \in 1..Len(s) :
        /\ \A j \in 1..Len(s) : Key(s[j]) >= Key(s[i])
        /\ \A j \in 1..(i - 1) : Key(s[j]) > Key(s[i])]

\* the message, as the template chosen and the categories it names
CategoryMessage(category_performance) ==
    LET pct(e) == e.on_time_percentage
        best_category == FirstMax(category_performance, pct)
        worst_category == FirstMin(category_performance, pct)
    IN IF Len(category_performance) > 1
       THEN [template |-> "best_worst",
             best |-> best_category.category,
             worst |-> IF worst_category.on_time_percentage < 700
                       THEN worst_category.category ELSE NoCategory]
       ELSE [template |-> "single",
             best |-> category_performance[1].category,
             worst |-> NoCategory]

analyze_category_performance(completed_tasks) ==
    IF completed_tasks = <<>> THEN None
    ELSE LET names == FirstSeen(completed_tasks, 1, {})
             entries == [i \in 1..Len(names) |-> CategoryEntry(completed_tasks, names[i])]
             keys == [i \in 1..Len(names) |-> entries[i].task_count]
             category_performance == Permute(entries, OrderDesc(Len(names), keys))
         IN [categories |-> category_performance,
             message |-> CategoryMessage(category_performance)]

\* ------------------------------------------------------ recommend_task_order
\* task['priority'] or 3: None and 0 are both false in Python
EffectivePriority(p) == IF p = NoPriority \/ p = 0 THEN DefaultPriority ELSE p

\* base_score = (6 - priority) * 10
BaseScore(task) == (6 - EffectivePriority(task.priority)) * 10

\* the chain with its last bound off by one
UrgencyWithinEightDays(days_until_due) ==
    IF days_until_due < 0 THEN 40
    ELSE IF days_until_due = 0 THEN 30
    ELSE IF days_until_due = 1 THEN 20
    ELSE IF days_until_due <= 7 THEN 10
    ELSE 0

\* the elif chain over days_until_due
UrgencyOfDays(days_until_due) ==
    IF days_until_due < 0 THEN 40
    ELSE IF days_until_due = 0 THEN 30
    ELSE IF days_until_due = 1 THEN 20
    ELSE IF days_until_due < 7 THEN 10
    ELSE 0

\* due_date_score: 0 without a due date, and 0 when fromisoformat raises
\* ValueError or the subtraction raises TypeError (both caught)
DueDateScore(task, now) ==
    IF DateTruthy(task.due_date) /\ Parses(task.due_date) /\ NaiveOk(task.due_date)
    THEN UrgencyOfDays(Days(task.due_date.t - now))
    ELSE 0

TotalScore(task, now) == BaseScore(task) + DueDateScore(task, now)

ScoreEntry(task, now) ==
    [id |-> task.id,
     score |-> TotalScore(task, now),
     priority |-> EffectivePriority(task.priority),
     due_date |-> task.due_date,
     category |-> CategoryOf(task)]

\* the first tasks of the list as they come, without the sort
RecommendUnsorted(pending_tasks, now) ==
    IF pending_tasks = <<>> THEN None
    ELSE [recommended_tasks |->
             Prefix([i \in 1..Len(pending_tasks) |-> ScoreEntry(pending_tasks[i], now)],
                    TopTasks)]

recommend_task_order(pending_tasks, now) ==
    IF pending_tasks = <<>> THEN None
    ELSE LET task_scores == [i \in 1..Len(pending_tasks) |-> ScoreEntry(pending_tasks[i], now)]
             keys == [i \in 1..Len(pending_tasks) |-> task_scores[i].score]
             sorted == Permute(task_scores, OrderDesc(Len(pending_tasks), keys))
         IN [recommended_tasks |-> Prefix(sorted, TopTasks)]

\* ============================================================ the database
VARIABLES
    tasks,                  \* table tasks, in rowid order
    user_activity,          \* table user_activity, in rowid order
    notification_settings,  \* table notification_settings, by its key user_id
    productivity_insights,  \* table productivity_insights, in rowid order
    now,                    \* the wall clock, in hours
    th,                     \* each thread's position and local variables
    runs,                   \* every generation run started so far
    response,               \* the last reply of the request thread
    planned,                \* the last invocation of the notification planner
    call,                   \* a direct call of a pure entry point: arguments, result
    budget                  \* what the behaviour has used of the bounds

vars == <<tasks, user_activity, notification_settings, productivity_insights,
          now, th, runs, response, planned, call, budget>>

Users == {"u1", "u2"}
\* a request that carries no user_id
NoUser == "<none>"
\* the Flask request thread and the APScheduler job thread
Threads == {"req", "job"}

\* a key the request's JSON does not hold
AbsentStr == "<absent>"
AbsentInt == -2000
AbsentDate == [k |-> "absent", t |-> 0]

Task(id, user_id, category, priority, status, due_date, completed_at) ==
    [id |-> id, user_id |-> user_id, category |-> category, priority |-> priority,
     status |-> status, due_date |-> due_date, completed_at |-> completed_at]

\* A database a user has worked with before the server starts: six tasks
\* completed at hours 9, 9, 14, 14, 14 and 20 of earlier days and one pending
\* task, all of user u1.
StoredTasks ==
    << Task(1, "u1", "work", 1, "completed", Ts(-15), Ts(-39)),
       Task(2, "u1", "work", 3, "completed", NullDate, Ts(-15)),
       Task(3, "u1", "home", 3, "completed", Ts(-40), Ts(-34)),
       Task(4, "u1", NoCategory, NoPriority, "completed", BadDate, Ts(-10)),
       Task(5, "u1", "home", 2, "completed", Ts(-10), Ts(-10)),
       Task(6, "u1", "work", 5, "completed", NullDate, Ts(-4)),
       Task(7, "u1", "work", 3, "pending", Ts(30), NullDate) >>

\* the row get_notification_settings and the schema defaults create
DefaultSettings ==
    [enable_push |-> TRUE, focus_hours |-> "[]", notification_frequency |-> "medium"]

\* an HTTP reply: the status code and, for a read, the rows returned
Reply(status, body) == [status |-> status, body |-> body]

NoInvocation == [user_id |-> NoUser, settings |-> None, pending |-> <<>>, result |-> None]

NoCall == [fn |-> "", done |-> FALSE]

IdleThread == [pc |-> "idle", run |-> 0, queue |-> <<>>, reply |-> 0]

Init ==
    /\ tasks \in {<<>>, StoredTasks}
    /\ user_activity = <<>>
    /\ notification_settings \in
         {[u \in Users |-> None],
          [u \in Users |-> IF u = "u1" THEN DefaultSettings ELSE None]}
    /\ productivity_insights = <<>>
    /\ now = 0
    /\ th = [t \in Threads |-> IdleThread]
    /\ runs = <<>>
    /\ response = Reply(0, <<>>)
    /\ planned = NoInvocation
    /\ call = NoCall
    /\ budget = [ticks |-> 0, created |-> 0, requests |-> 0, jobs |-> 0]

\* ------------------------------------------------------------------ queries
\* SELECT * FROM tasks WHERE user_id = ? AND status = 'completed'
\* ORDER BY completed_at DESC
CompletedTasks(tbl, user_id) ==
    LET mine(task) == task.user_id = user_id /\ task.status = "completed"
        rows == Filter(tbl, mine)
        keys == [i \in 1..Len(rows) |-> DateKey(rows[i].completed_at)]
    IN Permute(rows, OrderDesc(Len(rows), keys))

\* SELECT * FROM tasks WHERE user_id = ? AND status = 'pending'
\* ORDER BY due_date ASC
PendingTasks(tbl, user_id) ==
    LET mine(task) == task.user_id = user_id /\ task.status = "pending"
        rows == Filter(tbl, mine)
        keys == [i \in 1..Len(rows) |-> DateKey(rows[i].due_date)]
    IN Permute(rows, OrderAsc(Len(rows), keys))

\* the rows other connections see: those of committed transactions
Committed(store) ==
    LET done(row) == row.committed IN Filter(store, done)

\* SELECT * FROM productivity_insights WHERE user_id = ? AND
\* insight_type = 'productive_time' ORDER BY generated_at DESC LIMIT 1
\* (None without such a row. SQLite leaves the order among rows of one
\* generated_at open; the model takes the last inserted, and every such row
\* holds a non-empty list of hours, which is all the planner looks at.)
LatestProductiveTime(store, user_id) ==
    LET mine(row) == row.user_id = user_id /\ row.insight_type = "productive_time"
        rows == Filter(Committed(store), mine)
    IN IF rows = <<>> THEN None
       ELSE rows[CHOOSE i \in 1..Len(rows) :
                    /\ \A j \in 1..Len(rows) : rows[j].generated_at <= rows[i].generated_at
                    /\ \A j \in (i + 1)..Len(rows) : rows[j].generated_at < rows[i].generated_at]

\* SELECT DISTINCT user_id FROM tasks
RECURSIVE DistinctUsers(_, _, _)
DistinctUsers(tbl, i, seen) ==
    IF i > Len(tbl) THEN <<>>
    ELSE IF tbl[i].user_id \in seen THEN DistinctUsers(tbl, i + 1, seen)
         ELSE <<tbl[i].user_id>> \o DistinctUsers(tbl, i + 1, seen \cup {tbl[i].user_id})

\* the lookup by id alone, whoever asks
FindTaskOfAnyUser(tbl, task_id, user_id) ==
    IF \E i \in 1..Len(tbl) : tbl[i].id = task_id
    THEN CHOOSE i \in 1..Len(tbl) : tbl[i].id = task_id
    ELSE 0

\* the task row with this id and user_id, or 0
FindTask(tbl, task_id, user_id) ==
    IF \E i \in 1..Len(tbl) : tbl[i].id = task_id /\ tbl[i].user_id = user_id
    THEN CHOOSE i \in 1..Len(tbl) : tbl[i].id = task_id /\ tbl[i].user_id = user_id
    ELSE 0

Activity(user_id, task_id, action_type, at) ==
    [user_id |-> user_id, task_id |-> task_id, action_type |-> action_type,
     timestamp |-> at]

\* -------------------------------------------------- generate_task_insights
Insight(user_id, insight_type, insight_data) ==
    [user_id |-> user_id, insight_type |-> insight_type, insight_data |-> insight_data]

\* one analyzer's contribution to the list insights: nothing when it returned None
Produced(user_id, insight_type, result) ==
    IF result = None THEN <<>> ELSE <<Insight(user_id, insight_type, result)>>

\* the gate with >= for >
AtLeastMinCompleted(completed_tasks) == Len(completed_tasks) >= MinCompleted

\* the data-sufficiency gates
EnoughCompleted(completed_tasks) == Len(completed_tasks) > MinCompleted

EnoughPending(pending_tasks) == Len(pending_tasks) > MinPending

\* the local list insights, built from the two task snapshots
BuildInsights(user_id, completed_tasks, pending_tasks, at) ==
    IF EnoughCompleted(completed_tasks)
    THEN Produced(user_id, "productive_time", analyze_productive_time(completed_tasks))
         \o Produced(user_id, "completion_rate",
                     analyze_completion_rate(completed_tasks, pending_tasks))
         \o Produced(user_id, "category_performance",
                     analyze_category_performance(completed_tasks))
         \o (IF EnoughPending(pending_tasks)
             THEN Produced(user_id, "task_recommendations",
                           recommend_task_order(pending_tasks, at))
             ELSE <<>>)
    ELSE <<>>

\* a connection in autocommit mode (isolation_level=None)
AutoCommit == TRUE

\* whether a row written by cursor.execute(INSERT ...) is visible to other
\* connections at once: no, the sqlite3 connection opens a transaction before
\* the first INSERT and the rows appear at conn.commit()
VisibleOnInsert == FALSE

\* the row an INSERT of the run writes (generated_at DEFAULT CURRENT_TIMESTAMP)
InsertedRow(insight, run, at) ==
    [user_id |-> insight.user_id, insight_type |-> insight.insight_type,
     insight_data |-> insight.insight_data, generated_at |-> at,
     run |-> run, committed |-> VisibleOnInsert]

\* a run that goes on without its conn.commit()
CommitSkipped(store, r) == store

\* conn.commit() of run r: its rows become visible
CommitRun(store, r) ==
    [i \in 1..Len(store) |->
        IF store[i].run = r THEN [store[i] EXCEPT !.committed = TRUE] ELSE store[i]]

\* SQLite's write lock is free: no connection holds uncommitted rows
WriteLockFree(store) == \A i \in 1..Len(store) : store[i].committed

\* ---------------------------------------------- schedule_smart_notifications
\* task['due_date'] and task['due_date'].startswith(now.strftime('%Y-%m-%d'))
DueToday(task, at) ==
    /\ DateTruthy(task.due_date) /\ Parses(task.due_date)
    /\ DayOf(task.due_date.t) = DayOf(at)

\* the filter of the high_priority comprehension raises on this task:
\* fromisoformat raises ValueError, or comparing with the naive now TypeError
HighPriorityRaises(task) ==
    /\ task.priority \in {1, 2} /\ DateTruthy(task.due_date)
    /\ ~(Parses(task.due_date) /\ NaiveOk(task.due_date))

HighPriority(task, at) ==
    /\ task.priority \in {1, 2} /\ DateTruthy(task.due_date)
    /\ Parses(task.due_date) /\ NaiveOk(task.due_date)
    /\ task.due_date.t > at
    /\ Days(task.due_date.t - at) <= 3

Ids(s) == [i \in 1..Len(s) |-> s[i].id]

\* the planner's outcome: returned None, raised, or returned the list
Returned(notifications) == [kind |-> "list", notifications |-> notifications]
ReturnedNone == [kind |-> "none", notifications |-> <<>>]
Raised == [kind |-> "raised", notifications |-> <<>>]

PlanList(pending_tasks, productive_time_insight, at) ==
    LET today(task) == DueToday(task, at)
        due_today == Filter(pending_tasks, today)
        high(task) == HighPriority(task, at)
        high_priority == Filter(pending_tasks, high)
        nudge == /\ productive_time_insight # None
                 /\ productive_time_insight.insight_data.productive_hours # <<>>
                 /\ pending_tasks # <<>>
    IN (IF due_today # <<>>
        THEN <<[type |-> "due_today", tasks |-> Ids(Prefix(due_today, 3)),
                more |-> IF Len(due_today) > 3 THEN Len(due_today) - 3 ELSE 0,
                scheduled_time |-> at, priority |-> "high"]>>
        ELSE <<>>)
       \o (IF high_priority # <<>>
           THEN <<[type |-> "high_priority", tasks |-> Ids(Prefix(high_priority, 2)),
                   more |-> 0, scheduled_time |-> at + 2, priority |-> "medium"]>>
           ELSE <<>>)
       \o (IF nudge
           THEN <<[type |-> "productive_time", tasks |-> <<pending_tasks[1].id>>,
                   more |-> 0, scheduled_time |-> -1, priority |-> "low"]>>
           ELSE <<>>)

\* settings is the row of the user in notification_settings, or None
schedule_smart_notifications(settings, pending_tasks, productive_time_insight, at) ==
    IF settings = None THEN ReturnedNone
    ELSE IF ~settings.enable_push THEN ReturnedNone
    ELSE IF pending_tasks = <<>> THEN ReturnedNone
    ELSE IF \E i \in 1..Len(pending_tasks) : HighPriorityRaises(pending_tasks[i])
         THEN Raised
    ELSE Returned(PlanList(pending_tasks, productive_time_insight, at))

\* one invocation of the planner for user_id: its three reads of the database
\* and what it returns
Invocation(user_id, settings_tbl, task_tbl, store, at) ==
    [user_id |-> user_id,
     settings |-> settings_tbl[user_id],
     pending |-> PendingTasks(task_tbl, user_id),
     result |-> schedule_smart_notifications(
                    settings_tbl[user_id], PendingTasks(task_tbl, user_id),
                    LatestProductiveTime(store, user_id), at)]

\* ============================================================== the actions
\* what the requests carry
CategoryInputs == {NoCategory}
PriorityInputs == {NoPriority, 1}
DueInputs == {NullDate, BadDate, Ts(12)}
StatusInputs == {"pending", "completed", "archived"}
\* the task ids the requests name: an unknown one, a stored completed task, the
\* stored pending task, the tasks created since
TaskIds == {0, 1, Len(StoredTasks)} \cup ((Len(StoredTasks) + 1)..(Len(StoredTasks) + MaxNewTasks))

\* the JSON bodies of PUT /api/tasks/<id>: no field, or one of the fields
NoFields(user_id) ==
    [user_id |-> user_id, status |-> AbsentStr, priority |-> AbsentInt,
     due_date |-> AbsentDate, category |-> AbsentStr]

UpdateBodies(user_id) ==
    {NoFields(user_id)}
    \cup {[NoFields(user_id) EXCEPT !.status = v] : v \in StatusInputs}
    \cup {[NoFields(user_id) EXCEPT !.priority = v] : v \in PriorityInputs}
    \cup {[NoFields(user_id) EXCEPT !.due_date = v] : v \in DueInputs}
    \cup {[NoFields(user_id) EXCEPT !.category = v] : v \in CategoryInputs}

\* the JSON bodies of PUT /api/notifications/settings
SettingsBodies(user_id) ==
    {[user_id |-> user_id, enable_push |-> e, notification_frequency |-> f] :
        e \in {"absent", "true", "false"}, f \in {AbsentStr, "low"}}

Spend(what) == budget' = [budget EXCEPT ![what] = @ + 1]

\* ------------------------------------------- the steps of a generation run
\* generate_task_insights(user_id) entered by thread t, nothing read yet
NewRun(t, user_id) ==
    [thread |-> t, user_id |-> user_id, read |-> FALSE, completed |-> 0, pending |-> 0,
     insights |-> <<>>, inserted |-> 0, committed |-> FALSE, planned |-> 0,
     result |-> None]

\* after the three SELECTs and the analyzers: the list insights is built
ReadRun(run, task_tbl, at) ==
    LET completed_tasks == CompletedTasks(task_tbl, run.user_id)
        pending_tasks == PendingTasks(task_tbl, run.user_id)
    IN [run EXCEPT !.read = TRUE,
                   !.completed = Len(completed_tasks),
                   !.pending = Len(pending_tasks),
                   !.insights = BuildInsights(run.user_id, completed_tasks, pending_tasks, at)]

\* an INSERT OR REPLACE keyed by user and type: the older row of the type goes
InsertReplacing(store, run, r, at) ==
    LET new == InsertedRow(run.insights[run.inserted + 1], r, at)
        other(row) == ~(row.user_id = new.user_id /\ row.insight_type = new.insight_type)
    IN Append(Filter(store, other), new)

\* one pass of the loop "for insight in insights" of run r: one INSERT
InsertNext(store, run, r, at) ==
    Append(store, InsertedRow(run.insights[run.inserted + 1], r, at))

RECURSIVE InsertAll(_, _, _, _)
\* the whole loop, run without another thread in between
InsertAll(store, run, r, at) ==
    IF run.inserted = Len(run.insights) THEN store
    ELSE InsertAll(InsertNext(store, run, r, at), [run EXCEPT !.inserted = @ + 1], r, at)

\* the run after schedule_smart_notifications returned or raised
NotifiedRun(run, inv) == [run EXCEPT !.planned = @ + 1, !.result = inv.result]

\* The database parts a run writes or the model records: db.store is
\* productivity_insights, db.runs the runs, db.planned the last planner call.
\* generate_task_insights(user_id) from its first line to its last, by thread t.
RunToEnd(db, t, user_id, task_tbl, settings_tbl, at) ==
    LET r == Len(db.runs) + 1
        run == ReadRun(NewRun(t, user_id), task_tbl, at)
        store == CommitRun(InsertAll(db.store, run, r, at), r)
        inv == Invocation(user_id, settings_tbl, task_tbl, store, at)
        done == [run EXCEPT !.inserted = Len(run.insights), !.committed = TRUE]
    IN [store |-> store, runs |-> Append(db.runs, NotifiedRun(done, inv)), planned |-> inv]

RECURSIVE JobToEnd(_, _, _, _, _)
\* for user_id in users: generate_task_insights(user_id); an exception of the
\* planner ends the loop
JobToEnd(db, users, task_tbl, settings_tbl, at) ==
    IF users = <<>> THEN db
    ELSE LET next == RunToEnd(db, "job", Head(users), task_tbl, settings_tbl, at)
         IN IF next.planned.result = Raised THEN next
            ELSE JobToEnd(next, Tail(users), task_tbl, settings_tbl, at)

Db == [store |-> productivity_insights, runs |-> runs, planned |-> planned]

SetDb(db) ==
    /\ productivity_insights' = db.store
    /\ runs' = db.runs
    /\ planned' = db.planned

\* ------------------------------------------------------ the request handlers
\* the request thread takes a request: it is idle, and its first write waits
\* for SQLite's write lock
Serving ==
    /\ th["req"].pc = "idle"
    /\ budget.requests < MaxRequests
    /\ WriteLockFree(productivity_insights)

\* the handler replies without touching the database
Refuse(status) ==
    /\ response' = Reply(status, <<>>)
    /\ Spend("requests")
    /\ UNCHANGED <<tasks, user_activity, notification_settings, productivity_insights,
                   now, th, runs, planned>>

\* The handler calls generate_task_insights(user_id) and replies with status
\* (500 when the planner's exception leaves the run). With stepwise = FALSE
\* the call runs to its end within the handler's step; with stepwise = TRUE the
\* request thread enters the run and takes its steps one by one, among those
\* of the job thread.
Generate(user_id, status, stepwise) ==
    IF stepwise
    THEN /\ runs' = Append(runs, NewRun("req", user_id))
         /\ th' = [th EXCEPT !["req"] =
                      [pc |-> "gen_read", run |-> Len(runs) + 1, queue |-> <<>>,
                       reply |-> status]]
         /\ response' = Reply(0, <<>>)
         /\ UNCHANGED <<productivity_insights, planned>>
    ELSE /\ SetDb(RunToEnd(Db, "req", user_id, tasks', notification_settings', now))
         /\ response' = Reply(IF planned'.result = Raised THEN 500 ELSE status, <<>>)
         /\ UNCHANGED th

\* POST /api/tasks
create_task(user_id, category, priority, due_date, stepwise) ==
    /\ Serving
    /\ UNCHANGED call
    /\ IF user_id = NoUser
       THEN Refuse(400)
       ELSE /\ budget.created < MaxNewTasks
            /\ LET task_id == Len(StoredTasks) + budget.created + 1
               IN /\ tasks' = Append(tasks, Task(task_id, user_id, category, priority,
                                                 "pending", due_date, NullDate))
                  /\ user_activity' = Append(user_activity,
                                             Activity(user_id, task_id, "task_created", now))
            /\ budget' = [budget EXCEPT !.created = @ + 1, !.requests = @ + 1]
            /\ UNCHANGED <<notification_settings, now>>
            /\ Generate(user_id, 201, stepwise)

\* the UPDATE of update_task on one row: the fields the body holds, and
\* completed_at when the body's status is 'completed'
UpdatedTask(task, data, at) ==
    [task EXCEPT
        !.status = IF data.status # AbsentStr THEN data.status ELSE @,
        !.priority = IF data.priority # AbsentInt THEN data.priority ELSE @,
        !.due_date = IF data.due_date # AbsentDate THEN data.due_date ELSE @,
        !.category = IF data.category # AbsentStr THEN data.category ELSE @,
        !.completed_at = IF data.status = "completed" THEN Ts(at) ELSE @]

\* PUT /api/tasks/<task_id>
update_task(task_id, data, stepwise) ==
    LET i == FindTask(tasks, task_id, data.user_id)
        completes == data.status = "completed"
        logged == (IF completes
                   THEN <<Activity(data.user_id, task_id, "task_completed", now)>>
                   ELSE <<>>)
                  \o <<Activity(data.user_id, task_id, "task_updated", now)>>
        significant == data.status # AbsentStr \/ data.priority # AbsentInt
                       \/ data.due_date # AbsentDate
    IN /\ Serving
       /\ UNCHANGED call
       /\ IF data.user_id = NoUser THEN Refuse(400)
          ELSE IF i = 0 THEN Refuse(404)
          ELSE IF data = NoFields(data.user_id) THEN Refuse(400)
          ELSE /\ tasks' = [tasks EXCEPT ![i] = UpdatedTask(@, data, now)]
               /\ user_activity' = user_activity \o logged
               /\ Spend("requests")
               /\ UNCHANGED <<notification_settings, now>>
               /\ IF significant
                  THEN Generate(data.user_id, 200, stepwise)
                  ELSE /\ response' = Reply(200, <<>>)
                       /\ UNCHANGED <<th, runs, productivity_insights, planned>>

\* DELETE /api/tasks/<task_id>
delete_task(task_id, user_id) ==
    LET i == FindTask(tasks, task_id, user_id)
    IN /\ Serving
       /\ UNCHANGED call
       /\ IF user_id = NoUser THEN Refuse(400)
          ELSE IF i = 0 THEN Refuse(404)
          ELSE /\ tasks' = SubSeq(tasks, 1, i - 1) \o SubSeq(tasks, i + 1, Len(tasks))
               /\ user_activity' = Append(user_activity,
                                          Activity(user_id, task_id, "task_deleted", now))
               /\ response' = Reply(200, <<>>)
               /\ Spend("requests")
               /\ UNCHANGED <<notification_settings, productivity_insights, now, th,
                              runs, planned>>

\* SELECT ... WHERE user_id = ? ORDER BY generated_at DESC LIMIT 10
LatestInsights(store, user_id) ==
    LET mine(row) == row.user_id = user_id
        rows == Filter(Committed(store), mine)
        keys == [i \in 1..Len(rows) |-> rows[i].generated_at]
    IN Prefix(Permute(rows, OrderDesc(Len(rows), keys)), 10)

\* GET /api/insights: a read, it takes no write lock
get_insights(user_id) ==
    /\ th["req"].pc = "idle"
    /\ UNCHANGED call
    /\ budget.requests < MaxRequests
    /\ response' = IF user_id = NoUser THEN Reply(400, <<>>)
                   ELSE Reply(200, LatestInsights(productivity_insights, user_id))
    /\ Spend("requests")
    /\ UNCHANGED <<tasks, user_activity, notification_settings, productivity_insights,
                   now, th, runs, planned>>

\* the table after get_notification_settings looked user_id up: a missing row
\* is inserted with the defaults
EnsuredSettings(settings_tbl, user_id) ==
    IF settings_tbl[user_id] = None
    THEN [settings_tbl EXCEPT ![user_id] = DefaultSettings]
    ELSE settings_tbl

\* GET /api/notifications/settings
get_notification_settings(user_id) ==
    /\ Serving
    /\ UNCHANGED call
    /\ IF user_id = NoUser THEN Refuse(400)
       ELSE /\ notification_settings' = EnsuredSettings(notification_settings, user_id)
            /\ response' = Reply(200, <<notification_settings'[user_id]>>)
            /\ Spend("requests")
            /\ UNCHANGED <<tasks, user_activity, productivity_insights, now, th, runs,
                           planned>>

\* the row after the UPDATE (exists) or the INSERT (does not) of
\* update_notification_settings
UpdatedSettings(settings, data) ==
    LET base == IF settings = None THEN DefaultSettings ELSE settings
    IN [base EXCEPT
           !.enable_push = IF data.enable_push = "absent" THEN @
                           ELSE data.enable_push = "true",
           !.notification_frequency = IF data.notification_frequency = AbsentStr THEN @
                                      ELSE data.notification_frequency]

\* PUT /api/notifications/settings; the handler ends in
\* schedule_smart_notifications(user_id), whose exception is the reply 500
update_notification_settings(data) ==
    LET exists == notification_settings[data.user_id] # None
        empty == data.enable_push = "absent" /\ data.notification_frequency = AbsentStr
    IN /\ Serving
       /\ UNCHANGED call
       /\ IF data.user_id = NoUser THEN Refuse(400)
          ELSE IF exists /\ empty THEN Refuse(400)
          ELSE /\ notification_settings' =
                    [notification_settings EXCEPT ![data.user_id] = UpdatedSettings(@, data)]
               /\ planned' = Invocation(data.user_id, notification_settings', tasks,
                                        productivity_insights, now)
               /\ response' = Reply(IF planned'.result = Raised THEN 500 ELSE 200, <<>>)
               /\ Spend("requests")
               /\ UNCHANGED <<tasks, user_activity, productivity_insights, now, th, runs>>

\* scheduled_insights_generation, every 24 hours: the users are read and
\* generate_task_insights is called for each in turn (stepwise as in Generate)
scheduled_insights_generation(stepwise) ==
    LET users == DistinctUsers(tasks, 1, {})
    IN /\ th["job"].pc = "idle"
       /\ budget.jobs < MaxJobs
       /\ users # <<>>
       /\ Spend("jobs")
       /\ UNCHANGED <<tasks, user_activity, notification_settings, now, response, call>>
       /\ IF stepwise
          THEN /\ runs' = Append(runs, NewRun("job", Head(users)))
               /\ th' = [th EXCEPT !["job"] =
                            [pc |-> "gen_read", run |-> Len(runs) + 1,
                             queue |-> Tail(users), reply |-> 0]]
               /\ UNCHANGED <<productivity_insights, planned>>
          ELSE /\ WriteLockFree(productivity_insights)
               /\ SetDb(JobToEnd(Db, users, tasks, notification_settings, now))
               /\ UNCHANGED th

\* the wall clock advances
Tick ==
    /\ budget.ticks < MaxTicks
    /\ now' = now + TickStep
    /\ Spend("ticks")
    /\ UNCHANGED <<tasks, user_activity, notification_settings, productivity_insights,
                   th, runs, response, planned, call>>

\* ------------------------------------------------------------ the system
\* Every handler and the periodic job run from their first line to their last
\* in one step.
CreateTask ==
    \E user_id \in Users \cup {NoUser}, category \in CategoryInputs,
       priority \in PriorityInputs \cup {DefaultPriority}, due_date \in DueInputs :
        create_task(user_id, category, priority, due_date, FALSE)

UpdateTask ==
    \E task_id \in TaskIds, user_id \in Users \cup {NoUser} :
        \E data \in UpdateBodies(user_id) : update_task(task_id, data, FALSE)

DeleteTask ==
    \E task_id \in TaskIds, user_id \in Users \cup {NoUser} : delete_task(task_id, user_id)

GetInsights == \E user_id \in Users \cup {NoUser} : get_insights(user_id)

GetSettings == \E user_id \in Users \cup {NoUser} : get_notification_settings(user_id)

UpdateSettings ==
    \E user_id \in Users \cup {NoUser} :
        \E data \in SettingsBodies(user_id) : update_notification_settings(data)

PeriodicJob == scheduled_insights_generation(FALSE)

Next ==
    \/ CreateTask
    \/ UpdateTask
    \/ DeleteTask
    \/ GetInsights
    \/ GetSettings
    \/ UpdateSettings
    \/ PeriodicJob
    \/ Tick

Spec == Init /\ [][Next]_vars

\* ------------------------------------------------- the threads, step by step
\* The request thread and the job thread each run generate_task_insights one
\* statement group at a time: the reads, each INSERT, the commit, the planner.
\* A handler's own writes (committed before it calls generate_task_insights)
\* stay one step.
GenRead(t) ==
    /\ th[t].pc = "gen_read"
    /\ LET r == th[t].run
           run == ReadRun(runs[r], tasks, now)
       IN /\ runs' = [runs EXCEPT ![r] = run]
          /\ th' = [th EXCEPT ![t].pc =
                       IF run.insights = <<>> THEN "gen_commit" ELSE "gen_insert"]
    /\ UNCHANGED <<tasks, user_activity, notification_settings, productivity_insights,
                   now, response, planned, call, budget>>

\* one INSERT; it waits while another connection holds uncommitted rows
\* (SQLite's write lock)
GenInsert(t) ==
    /\ th[t].pc = "gen_insert"
    /\ LET r == th[t].run
       IN /\ \A i \in 1..Len(productivity_insights) :
                productivity_insights[i].committed \/ productivity_insights[i].run = r
          /\ productivity_insights' = InsertNext(productivity_insights, runs[r], r, now)
          /\ runs' = [runs EXCEPT ![r].inserted = @ + 1]
          /\ th' = [th EXCEPT ![t].pc =
                       IF runs[r].inserted + 1 = Len(runs[r].insights)
                       THEN "gen_commit" ELSE "gen_insert"]
    /\ UNCHANGED <<tasks, user_activity, notification_settings, now, response, planned,
                   call, budget>>

\* conn.commit()
GenCommit(t) ==
    /\ th[t].pc = "gen_commit"
    /\ productivity_insights' = CommitRun(productivity_insights, th[t].run)
    /\ runs' = [runs EXCEPT ![th[t].run].committed = TRUE]
    /\ th' = [th EXCEPT ![t].pc = "notify"]
    /\ UNCHANGED <<tasks, user_activity, notification_settings, now, response, planned,
                   call, budget>>

\* schedule_smart_notifications(user_id) at the end of the run. When it
\* raises, the exception leaves generate_task_insights: the request is
\* answered 500, the periodic job ends without its remaining users.
GenNotify(t) ==
    /\ th[t].pc = "notify"
    /\ LET r == th[t].run
           inv == Invocation(runs[r].user_id, notification_settings, tasks,
                             productivity_insights, now)
           more == inv.result # Raised /\ th[t].queue # <<>>
           ended == [runs EXCEPT ![r] = NotifiedRun(@, inv)]
       IN /\ planned' = inv
          /\ runs' = IF more THEN Append(ended, NewRun(t, Head(th[t].queue))) ELSE ended
          /\ th' = [th EXCEPT ![t] =
                       IF more
                       THEN [pc |-> "gen_read", run |-> Len(runs) + 1,
                             queue |-> Tail(th[t].queue), reply |-> 0]
                       ELSE IdleThread]
          /\ response' = IF t = "req"
                         THEN Reply(IF inv.result = Raised THEN 500 ELSE th[t].reply, <<>>)
                         ELSE response
    /\ UNCHANGED <<tasks, user_activity, notification_settings, productivity_insights,
                   now, call, budget>>

ConcCreate ==
    \E due_date \in {NullDate, BadDate} :
        create_task("u1", NoCategory, 1, due_date, TRUE)

ConcUpdate ==
    \E task_id \in {1, Len(StoredTasks)},
       data \in {[NoFields("u1") EXCEPT !.status = v] : v \in {"pending", "completed"}} :
        update_task(task_id, data, TRUE)

ConcGetInsights == get_insights("u1")

ConcJob == scheduled_insights_generation(TRUE)

ConcRead == \E t \in Threads : GenRead(t)

ConcInsert == \E t \in Threads : GenInsert(t)

ConcCommit == \E t \in Threads : GenCommit(t)

ConcNotify == \E t \in Threads : GenNotify(t)

ConcNext ==
    \/ ConcCreate
    \/ ConcUpdate
    \/ ConcJob
    \/ ConcRead
    \/ ConcInsert
    \/ ConcCommit
    \/ ConcNotify
    \/ ConcGetInsights
    \/ Tick

\* the same program with the two threads interleaved
SpecConc == Init /\ [][ConcNext]_vars

\* ------------------------------------------- the recommender, called directly
\* recommend_task_order is a function of the pending tasks and the current
\* instant alone: here it is called on task lists and instants drawn from the
\* sets below, and the call records the locals base_score and due_date_score
\* of each task next to the result.
ScorePriorities == {NoPriority, -1, 0, 1, 2, 3, 5, 7}
ScoreInstants == {24, 38}
\* due dates from two days before the earliest instant to ten days after the
\* latest, on both sides of every day boundary of the difference
ScoreDueDates ==
    {NullDate, BadDate, AwareTs(10)}
    \cup {Ts(t) : t \in {-24, 0, 14, 23, 24, 37, 38, 47, 48, 61, 62, 71, 72, 85, 86,
                         167, 168, 191, 192, 205, 206, 264, 278}}

PendingTask(id, priority, due_date) ==
    Task(id, "u1", NoCategory, priority, "pending", due_date, NullDate)

\* a second task, so that the list holds more than one: priority 5, due ten
\* days after the instant a
OtherTask(a) == PendingTask(2, 5, Ts(a + 10 * HoursPerDay))

ScoreInit ==
    /\ Init
    /\ tasks = <<>>
    /\ notification_settings = [u \in Users |-> None]

ScoreCalls ==
    {[fn |-> "recommend_task_order", done |-> FALSE,
      pending_tasks |-> IF n = 1 THEN <<PendingTask(1, p, d)>>
                        ELSE <<PendingTask(1, p, d), OtherTask(a)>>,
      at |-> a] :
        p \in ScorePriorities, d \in ScoreDueDates, a \in ScoreInstants, n \in {1, 2}}

\* the arguments are chosen
ScoreArgs ==
    /\ call = NoCall
    /\ call' \in ScoreCalls
    /\ UNCHANGED <<tasks, user_activity, notification_settings, productivity_insights,
                   now, th, runs, response, planned, budget>>

\* the call returns
ScoreReturn ==
    /\ call.fn = "recommend_task_order"
    /\ ~call.done
    /\ call' = [fn |-> call.fn, done |-> TRUE,
                pending_tasks |-> call.pending_tasks, at |-> call.at,
                base_score |-> [i \in 1..Len(call.pending_tasks) |->
                                   BaseScore(call.pending_tasks[i])],
                due_date_score |-> [i \in 1..Len(call.pending_tasks) |->
                                       DueDateScore(call.pending_tasks[i], call.at)],
                result |-> recommend_task_order(call.pending_tasks, call.at)]
    /\ UNCHANGED <<tasks, user_activity, notification_settings, productivity_insights,
                   now, th, runs, response, planned, budget>>

ScoreNext ==
    \/ ScoreArgs
    \/ ScoreReturn

SpecScore == ScoreInit /\ [][ScoreNext]_vars

\* ----------------------------------- the recommender on longer task lists
\* The tasks a list is drawn from: priority 1 without a due date (score 50),
\* priority 3 without a due date (30), priority 5 due a day ago (50).
OrderKinds == {"urgent", "plain", "overdue"}

OrderTask(id, kind, at) ==
    CASE kind = "urgent" -> PendingTask(id, 1, NullDate)
      [] kind = "plain" -> PendingTask(id, DefaultPriority, NullDate)
      [] OTHER -> PendingTask(id, 5, Ts(at - HoursPerDay))

\* the instant of these calls
OrderInstant == HoursPerDay

\* lists around the cut at five, the ids in input order
OrderLists == UNION {[1..m -> OrderKinds] : m \in (TopTasks - 1)..MaxPending}

OrderCalls ==
    {[fn |-> "recommend_task_order", done |-> FALSE,
      pending_tasks |-> [i \in 1..Len(kinds) |-> OrderTask(i, kinds[i], OrderInstant)],
      at |-> OrderInstant] : kinds \in OrderLists}

\* the arguments are chosen
OrderArgs ==
    /\ call = NoCall
    /\ call' \in OrderCalls
    /\ UNCHANGED <<tasks, user_activity, notification_settings, productivity_insights,
                   now, th, runs, response, planned, budget>>

\* the call returns: total_score is the local of each pass of the loop
OrderReturn ==
    /\ call.fn = "recommend_task_order"
    /\ ~call.done
    /\ call' = [fn |-> call.fn, done |-> TRUE,
                pending_tasks |-> call.pending_tasks, at |-> call.at,
                total_score |-> [i \in 1..Len(call.pending_tasks) |->
                                    TotalScore(call.pending_tasks[i], call.at)],
                result |-> recommend_task_order(call.pending_tasks, call.at),
                again |-> None]
    /\ UNCHANGED <<tasks, user_activity, notification_settings, productivity_insights,
                   now, th, runs, response, planned, budget>>

\* a second invocation on the same input at the same instant
OrderAgain ==
    /\ call.fn = "recommend_task_order"
    /\ call.done
    /\ call.again = None
    /\ call' = [call EXCEPT !.again = recommend_task_order(call.pending_tasks, call.at)]
    /\ UNCHANGED <<tasks, user_activity, notification_settings, productivity_insights,
                   now, th, runs, response, planned, budget>>

OrderNext ==
    \/ OrderArgs
    \/ OrderReturn
    \/ OrderAgain

SpecOrder == ScoreInit /\ [][OrderNext]_vars

\* ------------------------------- the productive-time analyzer, called directly
\* The completion timestamps of the tasks: update_task writes
\* datetime.now().isoformat(), so each parses. Hours 0, 9 (of two days), 12
\* and 21.
HourInstants == {0, 9, HoursPerDay + 9, 12, 21}

CompletedTask(id, t) ==
    Task(id, "u1", NoCategory, DefaultPriority, "completed", NullDate, Ts(t))

HourLists == UNION {[1..m -> HourInstants] : m \in 1..MaxSample}

HourCalls ==
    {[fn |-> "analyze_productive_time", done |-> FALSE,
      completed_tasks |-> [i \in 1..Len(ts) |-> CompletedTask(i, ts[i])]] :
        ts \in HourLists}

\* the arguments are chosen
HourArgs ==
    /\ call = NoCall
    /\ call' \in HourCalls
    /\ UNCHANGED <<tasks, user_activity, notification_settings, productivity_insights,
                   now, th, runs, response, planned, budget>>

\* the call returns
HourReturn ==
    /\ call.fn = "analyze_productive_time"
    /\ ~call.done
    /\ call' = [fn |-> call.fn, done |-> TRUE,
                completed_tasks |-> call.completed_tasks,
                result |-> analyze_productive_time(call.completed_tasks)]
    /\ UNCHANGED <<tasks, user_activity, notification_settings, productivity_insights,
                   now, th, runs, response, planned, budget>>

HourNext ==
    \/ HourArgs
    \/ HourReturn

SpecHours == ScoreInit /\ [][HourNext]_vars

\* ================================================================ the claims
\* C1: every stored task has completed_at set if and only if its status is
\* 'completed'.
C1_CompletedAtIffCompleted ==
    \A i \in 1..Len(tasks) :
        (tasks[i].completed_at # NullDate) <=> (tasks[i].status = "completed")

\* C2: once a task's completed_at has a value, no later step changes that
\* value while the task is stored.
C2_CompletedAtSetOnce ==
    [][\A i \in 1..Len(tasks) : \A j \in 1..Len(tasks') :
          (tasks[i].id = tasks'[j].id /\ tasks[i].completed_at # NullDate)
              => tasks'[j].completed_at = tasks[i].completed_at]_vars

\* C3: insight rows are append-only: every row of productivity_insights is, in
\* every later state, still there with the same user, type and payload, and a
\* visible row stays visible; a step only adds rows.
C3_InsightsAppendOnly ==
    [][\A i \in 1..Len(productivity_insights) :
          /\ i <= Len(productivity_insights')
          /\ productivity_insights'[i].user_id = productivity_insights[i].user_id
          /\ productivity_insights'[i].insight_type = productivity_insights[i].insight_type
          /\ productivity_insights'[i].insight_data = productivity_insights[i].insight_data
          /\ productivity_insights[i].committed => productivity_insights'[i].committed]_vars

\* two runs for one user have each persisted a row of one type
C3_Witness ==
    \E i, j \in 1..Len(productivity_insights) :
        /\ productivity_insights[i].run # productivity_insights[j].run
        /\ productivity_insights[i].user_id = productivity_insights[j].user_id
        /\ productivity_insights[i].insight_type = productivity_insights[j].insight_type
        /\ \E r \in 1..Len(runs) : runs[r].thread = "job" /\ runs[r].insights # <<>>
        /\ \E r \in 1..Len(runs) : runs[r].thread = "req" /\ runs[r].insights # <<>>

\* the rows of run r
RowsOf(store, r) == {i \in 1..Len(store) : store[i].run = r}

\* C4: at every state the rows of a generation run that other connections see
\* are none or all of the rows the run produces, and the rows of two runs never
\* interleave in the store.
C4_AtomicBatches ==
    /\ \A r \in 1..Len(runs) :
          LET seen == {i \in RowsOf(productivity_insights, r) :
                          productivity_insights[i].committed}
          IN seen = {} \/ Cardinality(seen) = Len(runs[r].insights)
    /\ \A i, k \in 1..Len(productivity_insights) :
          (i < k /\ productivity_insights[i].run = productivity_insights[k].run)
              => \A j \in i..k : productivity_insights[j].run = productivity_insights[i].run

\* a mutation-triggered run and the periodic run of the same user overlap: one
\* holds a part of its rows uncommitted while the other waits to insert
C4_Witness ==
    /\ th["req"].pc = "gen_insert"
    /\ th["job"].pc = "gen_insert"
    /\ runs[th["req"].run].user_id = runs[th["job"].run].user_id
    /\ \E t \in Threads :
          /\ runs[th[t].run].inserted > 0
          /\ runs[th[t].run].inserted < Len(runs[th[t].run].insights)
          /\ \E i \in RowsOf(productivity_insights, th[t].run) :
                ~productivity_insights[i].committed

\* the tasks of a user with a status, counted on the table
CountTasks(tbl, user_id, status) ==
    Cardinality({i \in 1..Len(tbl) : tbl[i].user_id = user_id /\ tbl[i].status = status})

InsightTypes ==
    {"productive_time", "completion_rate", "category_performance", "task_recommendations"}

\* C5: a generation run persists a row only if its user has more than 5
\* completed tasks, a task_recommendations row only if the user also has more
\* than 1 pending task; it persists no row for an absent result, at most 4
\* rows, and at most one of each type.
C5_GenerationGates ==
    [][\A r \in (Len(runs) + 1)..Len(runs') :
          LET rows == RowsOf(productivity_insights', r)
              types == {productivity_insights'[i].insight_type : i \in rows}
              completed == CountTasks(tasks', runs'[r].user_id, "completed")
              pending == CountTasks(tasks', runs'[r].user_id, "pending")
          IN /\ rows # {} => completed > 5
             /\ "task_recommendations" \in types => (completed > 5 /\ pending > 1)
             /\ \A i \in rows : productivity_insights'[i].insight_data # None
             /\ Cardinality(rows) <= 4
             /\ Cardinality(types) = Cardinality(rows)
             /\ types \subseteq InsightTypes]_vars

\* one run persisted four rows, another none for a user with exactly 5
\* completed tasks
C5_Witness ==
    \E r, q \in 1..Len(runs) :
        /\ Cardinality(RowsOf(productivity_insights, r)) = 4
        /\ runs[q].completed = 5
        /\ RowsOf(productivity_insights, q) = {}

\* C6: no task with a malformed date makes a generation run or the planner
\* fail: the planner never raises, no run ends in an exception, no request is
\* answered 500.
C6_MalformedDateNeverFails ==
    /\ planned.result # Raised
    /\ response.status # 500
    /\ \A r \in 1..Len(runs) : runs[r].result # Raised

\* C7: the planner, given the settings of its user, returns no candidate when
\* enable_push is false or no task is pending, and otherwise returns the
\* list of its zero to three candidates.
C7_PlannerContract ==
    (planned.user_id # NoUser /\ planned.settings # None) =>
        IF ~planned.settings.enable_push \/ planned.pending = <<>>
        THEN planned.result.kind # "raised" /\ planned.result.notifications = <<>>
        ELSE planned.result.kind = "list" /\ Len(planned.result.notifications) <= 3

\* C8: a planner that finds no settings row for its user goes on with the
\* defaults (enable_push true), so with pending tasks it does not take the
\* no-op exit.
C8_PlannerDefaultsSettings ==
    (planned.user_id # NoUser /\ planned.settings = None /\ planned.pending # <<>>)
        => planned.result.kind # "none"

Scored == call.fn = "recommend_task_order" /\ call.done

\* C9: the base score of a pending task is (6 - priority) * 10 for every
\* non-null integer priority and 30 for a null priority.
C9_BaseScore ==
    Scored =>
        \A i \in 1..Len(call.pending_tasks) :
            call.base_score[i] =
                IF call.pending_tasks[i].priority = NoPriority THEN 30
                ELSE (6 - call.pending_tasks[i].priority) * 10

\* the urgency bonus as C10 states it, on the hours from the instant to the due
\* date: d is the whole-day part of that difference
StatedBonus(due_date, at) ==
    LET delta == due_date.t - at
    IN IF due_date.k = "null" THEN 0
       ELSE IF delta < 0 THEN 40
       ELSE IF delta < 24 THEN 30
       ELSE IF delta < 48 THEN 20
       ELSE IF delta < 168 THEN 10
       ELSE 0

\* C10: the total score of a pending task with no due date or a due date that
\* is a timestamp is its base score plus 40 for d < 0, 30 for d = 0, 20 for
\* d = 1, 10 for 2 <= d <= 6 and 0 for d >= 7 or no due date; a priority-1 task
\* due yesterday scores 90, a priority-5 task due in ten days 10.
C10_TotalScore ==
    Scored =>
        \A i \in 1..Len(call.pending_tasks) :
            LET task == call.pending_tasks[i]
            IN \E j \in 1..Len(call.result.recommended_tasks) :
                  LET entry == call.result.recommended_tasks[j]
                  IN /\ entry.id = task.id
                     /\ task.due_date.k \in {"null", "ts"} =>
                           entry.score = call.base_score[i] + StatedBonus(task.due_date, call.at)
                     /\ (task.priority = 1 /\ task.due_date = Ts(call.at - 24)) =>
                           entry.score = 90
                     /\ (task.priority = 5 /\ task.due_date = Ts(call.at + 240)) =>
                           entry.score = 10

\* both scenarios of C10 in one call: a priority-1 task due yesterday, a
\* priority-5 task due in ten days
C10_Witness ==
    /\ Scored
    /\ Len(call.pending_tasks) = 2
    /\ call.pending_tasks[1].priority = 1
    /\ call.pending_tasks[1].due_date = Ts(call.at - 24)
    /\ call.pending_tasks[2].priority = 5
    /\ call.pending_tasks[2].due_date = Ts(call.at + 240)
    /\ call.result.recommended_tasks[1].score = 90
    /\ call.result.recommended_tasks[2].score = 10

Ordered == call.fn = "recommend_task_order" /\ call.done

\* the place of the task with this id in the input list
InputPlace(id) == CHOOSE i \in 1..Len(call.pending_tasks) : call.pending_tasks[i].id = id

\* C11: for a non-empty list of pending tasks the recommender returns exactly
\* min(5, number of pending tasks) of them, sorted non-increasing by score,
\* tasks of equal score in their input order, no omitted task scoring higher
\* than a returned one; a second invocation on the same input at the same
\* instant returns the same result.
C11_TopFiveStable ==
    Ordered =>
        LET n == Len(call.pending_tasks)
            out == call.result.recommended_tasks
            returned == {out[j].id : j \in 1..Len(out)}
        IN /\ Len(out) = IF n < 5 THEN n ELSE 5
           /\ Cardinality(returned) = Len(out)
           /\ \A j \in 1..Len(out) :
                 /\ \E i \in 1..n : call.pending_tasks[i].id = out[j].id
                 /\ out[j].score = call.total_score[InputPlace(out[j].id)]
           /\ \A j, k \in 1..Len(out) :
                 j < k => /\ out[j].score >= out[k].score
                          /\ out[j].score = out[k].score
                                => InputPlace(out[j].id) < InputPlace(out[k].id)
           /\ \A i \in 1..n :
                 call.pending_tasks[i].id \notin returned
                     => \A j \in 1..Len(out) : call.total_score[i] <= out[j].score
           /\ call.again # None => call.again = call.result

\* six tasks, the sixth scoring above the first: it is returned ahead of it,
\* a task is omitted, two returned tasks tie, and the call was made twice
C11_Witness ==
    /\ Ordered
    /\ Len(call.pending_tasks) = 6
    /\ call.total_score[6] > call.total_score[1]
    /\ Len(call.result.recommended_tasks) = 5
    /\ call.result.recommended_tasks[1].score = call.result.recommended_tasks[2].score
    /\ call.result.recommended_tasks[1].id # 1
    /\ call.again = call.result

HoursAnalyzed == call.fn = "analyze_productive_time" /\ call.done

\* the completions of the call in the bucket of an hour of day
CompletionsAt(hour) ==
    Cardinality({i \in 1..Len(call.completed_tasks) :
                    /\ call.completed_tasks[i].completed_at.k \in {"ts", "aware"}
                    /\ call.completed_tasks[i].completed_at.t % 24 = hour})

\* the hour of day a listed entry of the 12-hour clock stands for
ListedHour(entry) == (entry.hour % 12) + (IF entry.ampm = "PM" THEN 12 ELSE 0)

\* bucket g comes before bucket h: more completions, or as many and the lower hour
Outranks(g, h) ==
    \/ CompletionsAt(g) > CompletionsAt(h)
    \/ CompletionsAt(g) = CompletionsAt(h) /\ g < h

\* C12: given at least one completion timestamp that parses, the productive
\* hours are the up to 3 buckets of highest count among the buckets with a
\* completion, listed by count descending and, for equal counts, the lower
\* hour first; no bucket without a completion is listed.
C12_ProductiveHours ==
    (HoursAnalyzed /\ \E h \in 0..23 : CompletionsAt(h) > 0) =>
        /\ call.result # None
        /\ LET listed == [j \in 1..Len(call.result.productive_hours) |->
                             ListedHour(call.result.productive_hours[j])]
               busy == {h \in 0..23 : CompletionsAt(h) > 0}
           IN /\ Len(listed) = IF Cardinality(busy) < 3 THEN Cardinality(busy) ELSE 3
              /\ \A j \in 1..Len(listed) : listed[j] \in busy
              /\ \A j, k \in 1..Len(listed) : j < k => Outranks(listed[j], listed[k])
              /\ \A h \in busy :
                    (\A j \in 1..Len(listed) : listed[j] # h)
                        => \A j \in 1..Len(listed) : Outranks(listed[j], h)
              /\ \A h \in 0..23 : call.result.hour_data[h] = CompletionsAt(h)

\* four buckets hold completions, three of them one each: the fourth bucket is
\* left out by the tie-break
C12_Witness ==
    /\ HoursAnalyzed
    /\ CompletionsAt(9) = 2
    /\ CompletionsAt(0) = 1 /\ CompletionsAt(12) = 1 /\ CompletionsAt(21) = 1
    /\ call.result.productive_hours =
          <<FormatHour(9), FormatHour(0), FormatHour(12)>>

\* the productive_time rows of run r in the store
ProductiveRowsOf(store, r) ==
    {i \in RowsOf(store, r) : store[i].insight_type = "productive_time"}

\* run r is over: no thread is executing it
RunOver(r) == \A t \in Threads : th[t].pc = "idle" \/ th[t].run # r

\* C13: every generation run, with or without insights, invokes the planner
\* for its own user exactly once, and only when all its insight rows are
\* committed, so that the productive_time insight the planner reads is the
\* run's own or a later one. As a step property: a step that invokes the
\* planner for run r is the run's first such step and finds the run's rows
\* committed; no run counts more than one invocation; a run that is over
\* counts one.
C13_PlannerAfterCommit ==
    [][(\A r \in 1..Len(runs') :
            /\ runs'[r].planned <= 1
            /\ RunOver(r)' => runs'[r].planned = 1)
       /\
       (\A r \in 1..Len(runs) :
            runs'[r].planned # runs[r].planned =>
                LET mine == RowsOf(productivity_insights, r)
                    read == LatestProductiveTime(productivity_insights, runs[r].user_id)
                IN /\ runs[r].planned = 0
                   /\ planned'.user_id = runs[r].user_id
                   /\ runs'[r].result = planned'.result
                   /\ runs[r].read /\ runs[r].committed
                   /\ Cardinality(mine) = Len(runs[r].insights)
                   /\ \A i \in mine : productivity_insights[i].committed
                   /\ \A i \in ProductiveRowsOf(productivity_insights, r) :
                         /\ read # None
                         /\ read.generated_at >= productivity_insights[i].generated_at)]_vars

\* a run that persisted a productive_time row and a run that persisted nothing
\* have both invoked the planner, the first while the other thread was inside
\* a run of its own
C13_Witness ==
    \E r, q \in 1..Len(runs) :
        /\ ProductiveRowsOf(productivity_insights, r) # {}
        /\ runs[r].planned = 1
        /\ runs[q].read /\ runs[q].insights = <<>>
        /\ runs[q].planned = 1
        /\ runs[r].thread # runs[q].thread

\* no stored task has this id and this owner
Foreign(task_id, user_id) ==
    ~\E i \in 1..Len(tasks) : tasks[i].id = task_id /\ tasks[i].user_id = user_id

\* the step answers 404, writes nothing and starts no generation run
RefusedNotFound ==
    /\ response'.status = 404
    /\ UNCHANGED <<tasks, user_activity, productivity_insights, runs, planned>>

\* the log entries the step adds
Logged == {user_activity'[k] : k \in (Len(user_activity) + 1)..Len(user_activity')}

\* C14: a step of update_task or delete_task whose user_id does not own the
\* task, or whose task id is unknown, is answered not found and leaves the
\* task table, the activity log and the insight store as they were, with no
\* generation run; and a step in which a stored task changes or goes is the
\* step of a call that carries the task's id and its owner's user id, as the
\* entry it logs shows.
C14_NotOwnerRefused ==
    [][(\A task_id \in TaskIds, user_id \in Users :
            Foreign(task_id, user_id) =>
                /\ \A data \in UpdateBodies(user_id) :
                      update_task(task_id, data, FALSE) => RefusedNotFound
                /\ delete_task(task_id, user_id) => RefusedNotFound)
       /\
       (\A i \in 1..Len(tasks) :
            (\A j \in 1..Len(tasks') : tasks'[j] # tasks[i]) =>
                \E entry \in Logged :
                    /\ entry.task_id = tasks[i].id
                    /\ entry.user_id = tasks[i].user_id
                    /\ entry.action_type \in {"task_updated", "task_deleted"})]_vars

\* tasks of both users are stored, and the last request, which came after the
\* second user's task was created, was answered not found
C14_Witness ==
    /\ response.status = 404
    /\ budget.requests = MaxRequests
    /\ \E i, j \in 1..Len(tasks) : tasks[i].user_id = "u1" /\ tasks[j].user_id = "u2"
    /\ \E k \in 1..Len(user_activity) :
          user_activity[k].user_id = "u2" /\ user_activity[k].action_type = "task_created"

====
